---- MODULE Spec2Model ----
(***************************************************************************)
(* Model of the periodic motor control of mmlib (src/control.c): the speed *)
(* profiler, the wall-feedback loops, the PD/PI feedback law, the voltage  *)
(* to PWM conversion, the collision latch and the reset primitives.        *)
(*                                                                         *)
(* The tick (motor_control) runs to completion; the planner's functions    *)
(* are sequences of single volatile stores and driver calls, and a tick    *)
(* may run between any two of them.                                        *)
(*                                                                         *)
(* A C float is modelled as a small binary floating-point number: an       *)
(* integer count of units of 2^-FracBits whose magnitude is m * 2^e with   *)
(* m < 2^MantBits and e <= MaxExp.  Every float operation rounds its exact *)
(* result to the nearest such number, ties to even, as IEEE 754 does.      *)
(***************************************************************************)
EXTENDS Integers, Sequences, FiniteSets, TLC

\* ------------------------------------------------------------------------
\* Bounds of the model
\* ------------------------------------------------------------------------
MantBits == 3
MaxExp == 2
FracBits == 2
MaxSaturation == 2
MaxStreak == 8

\* ------------------------------------------------------------------------
\* Compile-time constants of the program (set in headers outside src/)
\* ------------------------------------------------------------------------
SYSTICK_FREQUENCY_HZ == 2
DRIVER_PWM_PERIOD == 3

\* ------------------------------------------------------------------------
\* float arithmetic
\* ------------------------------------------------------------------------
RECURSIVE Pow2(_)
Pow2(n) == IF n = 0 THEN 1 ELSE 2 * Pow2(n - 1)

AbsI(x) == IF x < 0 THEN -x ELSE x

Sign(x) == IF x < 0 THEN -1 ELSE 1

\* 1.0f
One == Pow2(FracBits)

\* 2^MantBits: every mantissa is below it
MantLimit == Pow2(MantBits)

\* the spacing of the floats with exponent e
Ulp == [e \in 0..MaxExp |-> Pow2(e)]

\* FLT_MAX
FloatMax == (MantLimit - 1) * Ulp[MaxExp]

\* the value standing for an overflowed result (infinity); never a float
Overflow == 2 * MantLimit * Ulp[MaxExp]

Finite(x) == AbsI(x) <= FloatMax

IsFloat(x) ==
    \E e \in 0..MaxExp :
        /\ AbsI(x) % Ulp[e] = 0
        /\ AbsI(x) \div Ulp[e] < MantLimit

\* n / d (n >= 0, d > 0) rounded to the nearest integer, ties to even
RoundHalfEven(n, d) ==
    LET q == n \div d
        r == n % d
    IN  IF 2 * r < d THEN q
        ELSE IF 2 * r > d THEN q + 1
        ELSE IF q % 2 = 0 THEN q ELSE q + 1

\* a / d (a >= 0, d > 0) rounded to a mantissa at the smallest exponent,
\* from e up, at which it fits
RECURSIVE RoundFrom(_, _, _)
RoundFrom(a, d, e) ==
    IF a < MantLimit * Ulp[e] * d
    THEN RoundHalfEven(a, d * Ulp[e]) * Ulp[e]
    ELSE IF e = MaxExp THEN Overflow
    ELSE RoundFrom(a, d, e + 1)

\* the float nearest to the rational n / d units (d > 0)
RoundQ(n, d) ==
    LET r == RoundFrom(AbsI(n), d, 0)
    IN  IF r > FloatMax THEN Sign(n) * Overflow ELSE Sign(n) * r

\* the float nearest to n units, tabulated for the sums of two values
RoundSum == [n \in (-2 * Overflow)..(2 * Overflow) |-> RoundQ(n, 1)]

FAdd(a, b) == RoundSum[a + b]

FSub(a, b) == RoundSum[a - b]

FMul(a, b) == RoundQ(a * b, One)

FDiv(a, b) == RoundQ(Sign(b) * a * One, AbsI(b))

\* conversion of a C int to float
IntToFloat(i) == RoundQ(i * One, 1)

\* the conversion rounding down, toward minus infinity
FloatToInt_floor(x) ==
    IF x >= 0 THEN x \div One ELSE -((-x + One - 1) \div One)

\* conversion of a float to int32_t: the fractional part is discarded
FloatToInt(x) == Sign(x) * (AbsI(x) \div One)

\* ------------------------------------------------------------------------
\* Environments: the values the collaborators return and the arguments the
\* planner passes.  A behaviour runs in one environment, chosen initially.
\* ------------------------------------------------------------------------
Half == One \div 2

\* a get_control_constants() snapshot
Gains(kp, kd, ks, ki) ==
    [kp_linear |-> kp, kd_linear |-> kd,
     kp_angular |-> kp, kd_angular |-> kd,
     kp_angular_side |-> ks, kp_angular_front |-> ks,
     kp_angular_diagonal |-> ks,
     ki_angular_side |-> ki, ki_angular_front |-> ki,
     ki_angular_diagonal |-> ki]

\* nothing moves: the base every environment varies
Still ==
    [targets |-> {0},            \* set_target_linear_speed arguments
     angulars |-> {0},           \* set_ideal_angular_speed arguments
     walls |-> {},               \* wall loops the planner may enable
     accs |-> {2 * One},         \* get_linear_acceleration()
     decs |-> {4 * One},         \* get_linear_deceleration()
     encs |-> {<<0, 0>>},        \* get_encoder_{left,right}_speed()
     gyros |-> {0},              \* get_gyro_z_radps()
     closes |-> {0},             \* get_side_sensors_close_error()
     fars |-> {0},               \* get_side_sensors_far_error()
     fronts |-> {0},             \* get_front_sensors_error()
     diagonals |-> {0},          \* get_diagonal_sensors_error()
     vins |-> {2 * One},         \* get_motor_driver_input_voltage()
     controls |-> {Gains(One, One, One, One)},
     tracking |-> FALSE,         \* the wheels turn at the ideal speed
     observe |-> FALSE,          \* profile runs are observed
     counting |-> FALSE,         \* streaks of enabled ticks are counted
     history |-> FALSE]          \* the last two planner calls are recorded

\* straight-line speed tracking
Linear ==
    [Still EXCEPT !.targets = {0, 2 * One}, !.encs = {<<One, One>>}]

\* turning
Angular ==
    [Still EXCEPT !.angulars = {0, One}, !.gyros = {0, One}]

\* side wall following
SideWalls ==
    [Still EXCEPT !.walls = {"close", "far"},
                  !.closes = {Half}, !.fars = {One}]

\* front and diagonal wall following
FrontWalls ==
    [Still EXCEPT !.walls = {"front", "diagonal"},
                  !.fronts = {Half}, !.diagonals = {Half}, !.vins = {One}]

Environments == {Linear, Angular, SideWalls, FrontWalls}

\* a profile run: the wheels follow the ideal speed, all gains zero
Profile ==
    [Still EXCEPT !.controls = {Gains(0, 0, 0, 0)},
                  !.tracking = TRUE, !.observe = TRUE]

\* limits of 2.0 and 4.0: both steps and every sum are floats
ProfileExact ==
    [Profile EXCEPT !.targets = {0, One, 3 * One}]

\* limits whose quotient by the tick frequency is not a float
ProfileInexact ==
    [Profile EXCEPT !.accs = {5}, !.decs = {3}, !.targets = {0, 5, 6}]

\* speeds at which the floats are spaced wider than the step
ProfileCoarse ==
    [Profile EXCEPT !.accs = {6}, !.decs = {2}, !.targets = {0, 12, 14}]

Profiles == {ProfileExact, ProfileInexact, ProfileCoarse}

\* streaks of enabled ticks under constant readings, all gains zero
Counting ==
    [Still EXCEPT !.controls = {Gains(0, 0, 0, 0)}, !.counting = TRUE]

\* the side-close sensors report 0.5
CountingCloseHalf ==
    [Counting EXCEPT !.walls = {"close"}, !.closes = {Half}]

\* the side-close sensors report three quarters
CountingCloseOdd ==
    [Counting EXCEPT !.walls = {"close"}, !.closes = {3}]

\* the gyro reports +1.0 rad/s
CountingGyro ==
    [Counting EXCEPT !.gyros = {One}]

\* both side loops: close reports 0.5, far 1.0; only the proportional side
\* gain is not zero
CountingSides ==
    [Counting EXCEPT !.walls = {"close", "far"},
                     !.closes = {Half}, !.fars = {One},
                     !.controls = {Gains(0, 0, One, 0)}]

\* both encoders report 0.25 m/s while the ideal speed stays zero; only the
\* derivative gains are not zero
CountingLinear ==
    [Counting EXCEPT !.encs = {<<1, 1>>},
                     !.controls = {Gains(0, One, 0, 0)}]

Countings ==
    {CountingCloseHalf, CountingCloseOdd, CountingGyro, CountingSides,
     CountingLinear}

\* straight-line driving into an obstacle, the planner's calls recorded
Recorded == [Linear EXCEPT !.history = TRUE]

Recordings == {Recorded}

\* ------------------------------------------------------------------------
\* State
\* ------------------------------------------------------------------------
VARIABLES
    cs,          \* the static volatile variables of control.c, by name
    saturation,  \* motor driver: the value motor_driver_saturation() returns
    driver_on,   \* motor driver: PWM output enabled (power_*) or off (drive_off)
    planner,     \* the planner function in progress, or the last one called
    pending,     \* the statements of that function still to execute
    op,          \* who took the last step: "motor_control", "planner" or "none"
    calls,       \* the motor driver calls made by the last step, in order
    run,         \* profile run under observation: start, step count; or NoRun
    watch,       \* streak of enabled ticks counted: its length and its start
    env          \* the environment of this behaviour

vars ==
    <<cs, saturation, driver_on, planner, pending, op, calls, run, watch, env>>

\* no profile run is observed
NoRun ==
    [active |-> FALSE, start |-> 0, bound |-> 0, ticks |-> 0,
     from |-> 0, arrived |-> FALSE]

ZeroState ==
    [target_linear_speed |-> 0,
     ideal_linear_speed |-> 0,
     ideal_angular_speed |-> 0,
     linear_error |-> 0,
     angular_error |-> 0,
     last_linear_error |-> 0,
     last_angular_error |-> 0,
     voltage_left |-> 0,
     voltage_right |-> 0,
     pwm_left |-> 0,
     pwm_right |-> 0,
     collision_detected_signal |-> FALSE,
     motor_control_enabled_signal |-> FALSE,
     side_sensors_close_control_enabled |-> FALSE,
     side_sensors_far_control_enabled |-> FALSE,
     front_sensors_control_enabled |-> FALSE,
     diagonal_sensors_control_enabled |-> FALSE,
     side_sensors_integral |-> 0,
     front_sensors_integral |-> 0,
     diagonal_sensors_integral |-> 0]

\* a planner call as recorded: the function, and the two flags when it was
\* called
NoCall == [name |-> "none", enabled |-> FALSE, latched |-> FALSE]

\* no enabled tick counted and no call recorded since start-up
NoWatch ==
    [ticks |-> 0, from |-> ZeroState, trail |-> <<NoCall, NoCall>>,
     preempted |-> FALSE]

\* the state at start-up, in one of the given environments
Start(environments) ==
    /\ cs = ZeroState
    /\ saturation = 0
    /\ driver_on = FALSE
    /\ planner = "none"
    /\ pending = <<>>
    /\ op = "none"
    /\ calls = <<>>
    /\ run = NoRun
    /\ watch = NoWatch
    /\ env \in environments

Init == Start(Environments)

InitProfile == Start(Profiles)

InitCounting == Start(Countings)

InitRecording == Start(Recordings)

\* ------------------------------------------------------------------------
\* Motor driver (collaborator): PWM output and saturation counter
\* ------------------------------------------------------------------------
\* half a second, a float
MAX_MOTOR_DRIVER_SATURATION_PERIOD == One \div 2

\* the threshold of the collision check, a float
T_SAT == FMul(MAX_MOTOR_DRIVER_SATURATION_PERIOD,
              IntToFloat(SYSTICK_FREQUENCY_HZ))

Clamped(pwm) == AbsI(pwm) > DRIVER_PWM_PERIOD

\* the counter after power_left(l) and power_right(r) of one tick
SaturationAfterPower(sat, l, r) ==
    IF Clamped(l) \/ Clamped(r) THEN sat + 1 ELSE sat

\* ------------------------------------------------------------------------
\* Tick context
\* ------------------------------------------------------------------------
\* the duty without the division by the supply voltage
voltage_to_motor_pwm_uncompensated(voltage, vin) ==
    FloatToInt(FMul(voltage, IntToFloat(DRIVER_PWM_PERIOD)))

voltage_to_motor_pwm(voltage, vin) ==
    FloatToInt(FMul(FDiv(voltage, vin), IntToFloat(DRIVER_PWM_PERIOD)))

\* the conversion stays within the floats
PwmFinite(voltage, vin) ==
    Finite(FMul(FDiv(voltage, vin), IntToFloat(DRIVER_PWM_PERIOD)))

get_measured_linear_speed(enc_left, enc_right) ==
    RoundQ(FAdd(enc_left, enc_right), 2)

\* the gyro rate taken as it is, not negated
get_measured_angular_speed_as_read(gyro) == gyro

\* lines 260-263: the negated gyro rate
get_measured_angular_speed(gyro) == -gyro

\* the step taken whole, never cut at the target
update_ideal_linear_speed_unclamped(ideal, target, acc, dec) ==
    IF ideal < target
    THEN FAdd(ideal, FDiv(acc, IntToFloat(SYSTICK_FREQUENCY_HZ)))
    ELSE IF ideal > target
    THEN FSub(ideal, FDiv(dec, IntToFloat(SYSTICK_FREQUENCY_HZ)))
    ELSE ideal

\* the value of ideal_linear_speed after update_ideal_linear_speed()
update_ideal_linear_speed(ideal, target, acc, dec) ==
    IF ideal < target
    THEN LET up == FAdd(ideal, FDiv(acc, IntToFloat(SYSTICK_FREQUENCY_HZ)))
         IN  IF up > target THEN target ELSE up
    ELSE IF ideal > target
    THEN LET down == FSub(ideal, FDiv(dec, IntToFloat(SYSTICK_FREQUENCY_HZ)))
         IN  IF down < target THEN target ELSE down
    ELSE ideal

\* the latch set, motor control left enabled
set_collision_detected_latch_only(s) ==
    [s EXCEPT !.collision_detected_signal = TRUE]

\* set_collision_detected()
set_collision_detected(s) ==
    [s EXCEPT !.collision_detected_signal = TRUE,
              !.motor_control_enabled_signal = FALSE]

\* with both loops enabled the far error is the one summed twice
SideLoops_far_twice(s, close, far) ==
    LET fb1 == IF s.side_sensors_close_control_enabled
               THEN FAdd(0, close) ELSE 0
        si1 == IF s.side_sensors_close_control_enabled
               THEN FAdd(s.side_sensors_integral, fb1)
               ELSE s.side_sensors_integral
        fb2 == IF s.side_sensors_far_control_enabled
               THEN FAdd(fb1, far) ELSE fb1
    IN  [feedback |-> fb2,
         integral |-> IF s.side_sensors_far_control_enabled
                      THEN FAdd(FAdd(si1, far), far) ELSE si1]

\* the close loop feeds back but does not accumulate
SideLoops_close_unsummed(s, close, far) ==
    LET fb1 == IF s.side_sensors_close_control_enabled
               THEN FAdd(0, close) ELSE 0
        fb2 == IF s.side_sensors_far_control_enabled
               THEN FAdd(fb1, far) ELSE fb1
    IN  [feedback |-> fb2,
         integral |-> IF s.side_sensors_far_control_enabled
                      THEN FAdd(s.side_sensors_integral, fb2)
                      ELSE s.side_sensors_integral]

\* lines 325-333: the side feedback and side integral after the close and
\* far loops
SideLoops(s, close, far) ==
    LET fb1 == IF s.side_sensors_close_control_enabled
               THEN FAdd(0, close) ELSE 0
        si1 == IF s.side_sensors_close_control_enabled
               THEN FAdd(s.side_sensors_integral, fb1)
               ELSE s.side_sensors_integral
        fb2 == IF s.side_sensors_far_control_enabled
               THEN FAdd(fb1, far) ELSE fb1
    IN  [feedback |-> fb2,
         integral |-> IF s.side_sensors_far_control_enabled
                      THEN FAdd(si1, fb2) ELSE si1]

\* a disabled front loop clears its integral
FrontLoop_clearing(s, front) ==
    IF s.front_sensors_control_enabled
    THEN [feedback |-> front,
          integral |-> FAdd(s.front_sensors_integral, front)]
    ELSE [feedback |-> 0, integral |-> 0]

\* lines 335-338
FrontLoop(s, front) ==
    IF s.front_sensors_control_enabled
    THEN [feedback |-> front,
          integral |-> FAdd(s.front_sensors_integral, front)]
    ELSE [feedback |-> 0, integral |-> s.front_sensors_integral]

\* lines 340-343
DiagonalLoop(s, diagonal) ==
    IF s.diagonal_sensors_control_enabled
    THEN [feedback |-> diagonal,
          integral |-> FAdd(s.diagonal_sensors_integral, diagonal)]
    ELSE [feedback |-> 0, integral |-> s.diagonal_sensors_integral]

\* lines 350-351
LinearVoltage(c, lin_err, last) ==
    FAdd(FMul(c.kp_linear, lin_err),
         FMul(c.kd_linear, FSub(lin_err, last)))

\* lines 352-360: the eight terms of the angular voltage
AngularTerms(c, ang_err, last, side, front, diagonal) ==
    <<FMul(c.kp_angular, ang_err),
      FMul(c.kd_angular, FSub(ang_err, last)),
      FMul(c.kp_angular_side, side.feedback),
      FMul(c.kp_angular_front, front.feedback),
      FMul(c.kp_angular_diagonal, diagonal.feedback),
      FMul(c.ki_angular_side, side.integral),
      FMul(c.ki_angular_front, front.integral),
      FMul(c.ki_angular_diagonal, diagonal.integral)>>

\* the terms summed left to right
AngularVoltage(t) ==
    FAdd(FAdd(FAdd(FAdd(FAdd(FAdd(FAdd(t[1], t[2]), t[3]), t[4]), t[5]),
                   t[6]), t[7]), t[8])

\* the stores of an enabled tick but for the ideal speed, which is kept
StoreTick_keeping_ideal(s, t) ==
    [s EXCEPT !.side_sensors_integral = t.side_sensors_integral,
              !.front_sensors_integral = t.front_sensors_integral,
              !.diagonal_sensors_integral = t.diagonal_sensors_integral,
              !.linear_error = t.linear_error,
              !.angular_error = t.angular_error,
              !.voltage_left = t.voltage_left,
              !.voltage_right = t.voltage_right,
              !.pwm_left = t.pwm_left,
              !.pwm_right = t.pwm_right,
              !.last_linear_error = t.linear_error,
              !.last_angular_error = t.angular_error]

\* the stores of an enabled tick but for the previous errors, which are kept
StoreTick_keeping_last(s, t) ==
    [StoreTick_keeping_ideal(s, t)
         EXCEPT !.ideal_linear_speed = t.ideal_linear_speed,
                !.last_linear_error = s.last_linear_error,
                !.last_angular_error = s.last_angular_error]

\* the control state after the stores of an enabled tick (lines 323-371),
\* before the saturation check; t holds the values computed
StoreTick(s, t) ==
    [s EXCEPT !.ideal_linear_speed = t.ideal_linear_speed,
              !.side_sensors_integral = t.side_sensors_integral,
              !.front_sensors_integral = t.front_sensors_integral,
              !.diagonal_sensors_integral = t.diagonal_sensors_integral,
              !.linear_error = t.linear_error,
              !.angular_error = t.angular_error,
              !.voltage_left = t.voltage_left,
              !.voltage_right = t.voltage_right,
              !.pwm_left = t.pwm_left,
              !.pwm_right = t.pwm_right,
              !.last_linear_error = t.linear_error,
              !.last_angular_error = t.angular_error]

\* every enabled tick ends with the collision set
CollisionCheck_always(s, sat) == set_collision_detected(s)

\* the collision set only when it was not set before
CollisionCheck_on_rise(s, sat) ==
    IF IntToFloat(sat) > T_SAT /\ ~s.collision_detected_signal
    THEN set_collision_detected(s) ELSE s

\* lines 373-375: the collision check that ends an enabled tick
CollisionCheck(s, sat) ==
    IF IntToFloat(sat) > T_SAT THEN set_collision_detected(s) ELSE s

\* ------------------------------------------------------------------------
\* Observation of a profile run: from a write of the target (the ideal
\* speed then is the start) over the enabled ticks that follow
\* ------------------------------------------------------------------------
CeilDiv(n, d) == (n + d - 1) \div d

\* ceil(|target - start| / (limit / SYSTICK_FREQUENCY_HZ)) in exact
\* arithmetic, the limit being the acceleration when rising and the
\* deceleration when falling
RunBound(start, target, acc, dec) ==
    IF start < target
    THEN CeilDiv((target - start) * SYSTICK_FREQUENCY_HZ, acc)
    ELSE IF start > target
    THEN CeilDiv((start - target) * SYSTICK_FREQUENCY_HZ, dec)
    ELSE 0

RunStart(start, target, acc, dec) ==
    [active |-> TRUE, start |-> start,
     bound |-> RunBound(start, target, acc, dec),
     ticks |-> 0, from |-> start, arrived |-> start = target]

\* one enabled tick of the run, from the ideal speed from to ideal; the
\* count stops once past the bound
RunTick(r, from, target, ideal) ==
    IF r.active
    THEN [r EXCEPT !.ticks = IF r.ticks <= r.bound
                             THEN r.ticks + 1 ELSE r.ticks,
                   !.from = from,
                   !.arrived = r.arrived \/ ideal = target]
    ELSE r

\* reset_control_errors() is between its store to linear_error (line 123)
\* and its store to last_angular_error (line 126)
ResetHalfDone ==
    /\ \E i \in 1..Len(pending) : pending[i].line = 126
    /\ \A i \in 1..Len(pending) : pending[i].line # 123

\* one more enabled tick of the streak; the count stops past MaxStreak.  The
\* tick is marked when it pre-empts a half-done reset of the errors
WatchTick(w) ==
    IF env.counting
    THEN [w EXCEPT !.ticks = IF w.ticks <= MaxStreak
                             THEN w.ticks + 1 ELSE w.ticks,
                   !.preempted = ResetHalfDone]
    ELSE w

\* the gate left out: the tick always runs
Gated_never(s) == FALSE

\* line 320: the tick returns at once
Gated(s) == ~s.motor_control_enabled_signal

\* motor_control(), one tick.  in: the values the collaborators return.
\* Each local is bound once, in program order.
motor_control(in) ==
    /\ op' = "motor_control"
    /\ UNCHANGED <<planner, pending, env>>
    /\ IF Gated(cs)
       THEN /\ calls' = <<>>
            /\ UNCHANGED <<cs, saturation, driver_on, run, watch>>
       ELSE \E ideal \in {update_ideal_linear_speed(cs.ideal_linear_speed,
                              cs.target_linear_speed, in.acc, in.dec)} :
            \E side \in {SideLoops(cs, in.close, in.far)} :
            \E front \in {FrontLoop(cs, in.front)} :
            \E diagonal \in {DiagonalLoop(cs, in.diagonal)} :
            \E lin_err \in {FAdd(cs.linear_error,
                                 FSub(ideal, get_measured_linear_speed(
                                                 in.enc_left, in.enc_right)))} :
            \E ang_err \in {FAdd(cs.angular_error,
                                 FSub(cs.ideal_angular_speed,
                                      get_measured_angular_speed(in.gyro)))} :
            \E linear_voltage \in {LinearVoltage(in.control, lin_err,
                                                 cs.last_linear_error)} :
            \E terms \in {AngularTerms(in.control, ang_err,
                                       cs.last_angular_error,
                                       side, front, diagonal)} :
            \E angular_voltage \in {AngularVoltage(terms)} :
            \E vl \in {FAdd(linear_voltage, angular_voltage)} :
            \E vr \in {FSub(linear_voltage, angular_voltage)} :
            \E pl \in {voltage_to_motor_pwm(vl, in.vin)} :
            \E pr \in {voltage_to_motor_pwm(vr, in.vin)} :
            \E sat \in {SaturationAfterPower(saturation, pl, pr)} :
                \* no float overflows (out of contract), the counter is capped
                /\ \A x \in {ideal, side.feedback, side.integral,
                             front.integral, diagonal.integral, lin_err,
                             ang_err, linear_voltage, angular_voltage,
                             vl, vr} : Finite(x)
                /\ \A i \in 1..8 : Finite(terms[i])
                /\ PwmFinite(vl, in.vin)
                /\ PwmFinite(vr, in.vin)
                /\ sat <= MaxSaturation
                /\ calls' = <<"power_left", "power_right">>
                /\ driver_on' = TRUE
                /\ saturation' = sat
                /\ cs' = CollisionCheck(
                       StoreTick(cs,
                           [ideal_linear_speed |-> ideal,
                            side_sensors_integral |-> side.integral,
                            front_sensors_integral |-> front.integral,
                            diagonal_sensors_integral |-> diagonal.integral,
                            linear_error |-> lin_err,
                            angular_error |-> ang_err,
                            voltage_left |-> vl,
                            voltage_right |-> vr,
                            pwm_left |-> pl,
                            pwm_right |-> pr]),
                       sat)
                /\ run' = RunTick(run, cs.ideal_linear_speed,
                                  cs.target_linear_speed, ideal)
                /\ watch' = WatchTick(watch)

\* the values the collaborators may return during one tick; a collaborator
\* is read only on the path that calls it
TickInputs ==
    LET on == ~Gated(cs)
        up == on /\ cs.ideal_linear_speed < cs.target_linear_speed
        down == on /\ cs.ideal_linear_speed > cs.target_linear_speed
        Encs(a, d) ==
            IF ~on THEN {<<0, 0>>}
            ELSE IF env.tracking
            THEN {<<update_ideal_linear_speed(cs.ideal_linear_speed,
                        cs.target_linear_speed, a, d),
                    update_ideal_linear_speed(cs.ideal_linear_speed,
                        cs.target_linear_speed, a, d)>>}
            ELSE env.encs
        Rest(a, d) ==
            {[acc |-> a, dec |-> d, enc_left |-> e[1], enc_right |-> e[2],
              gyro |-> g, close |-> sc, far |-> sf, front |-> fr,
              diagonal |-> dg, vin |-> v, control |-> c] :
                e \in Encs(a, d),
                g \in IF on THEN env.gyros ELSE {0},
                sc \in IF on /\ cs.side_sensors_close_control_enabled
                       THEN env.closes ELSE {0},
                sf \in IF on /\ cs.side_sensors_far_control_enabled
                       THEN env.fars ELSE {0},
                fr \in IF on /\ cs.front_sensors_control_enabled
                       THEN env.fronts ELSE {0},
                dg \in IF on /\ cs.diagonal_sensors_control_enabled
                       THEN env.diagonals ELSE {0},
                v \in IF on THEN env.vins ELSE {One},
                c \in IF on THEN env.controls ELSE {Gains(0, 0, 0, 0)}}
    IN  UNION {Rest(l[1], l[2]) :
                   l \in (IF up THEN env.accs ELSE {0})
                             \X (IF down THEN env.decs ELSE {0})}

Tick == \E in \in TickInputs : motor_control(in)

\* ------------------------------------------------------------------------
\* Planner context: each function is the sequence of its statements, a
\* statement being the source line of a store or driver call and the value
\* it stores
\* ------------------------------------------------------------------------
St(line, arg) == [line |-> line, arg |-> arg]

side_sensors_close_control(value) == <<St(47, value)>>

side_sensors_far_control(value) == <<St(55, value)>>

diagonal_sensors_control(value) == <<St(63, value)>>

front_sensors_control(value) == <<St(71, value)>>

disable_walls_control ==
    side_sensors_close_control(FALSE)
        \o side_sensors_far_control(FALSE)
        \o front_sensors_control(FALSE)

reset_collision_detection == <<St(111, FALSE), St(112, 0)>>

\* the linear error left as it is
reset_control_errors_but_linear ==
    <<St(120, 0), St(121, 0), St(122, 0), St(124, 0), St(125, 0),
      St(126, 0)>>

\* the previous angular error left as it is
reset_control_errors_but_last ==
    <<St(120, 0), St(121, 0), St(122, 0), St(123, 0), St(124, 0),
      St(125, 0)>>

reset_control_errors ==
    <<St(120, 0), St(121, 0), St(122, 0), St(123, 0), St(124, 0),
      St(125, 0), St(126, 0)>>

\* the speeds reset, and the collision latch with them
reset_control_speed_and_latch ==
    <<St(134, 0), St(135, 0), St(136, 0), St(111, FALSE)>>

reset_control_speed == <<St(134, 0), St(135, 0), St(136, 0)>>

reset_control_all ==
    reset_control_errors \o reset_control_speed \o reset_collision_detection

enable_motor_control == <<St(163, TRUE)>>

disable_motor_control == <<St(174, FALSE)>>

\* the driver turned off first, motor control disabled after
reset_motion_off_first ==
    <<St(189, 0)>> \o disable_motor_control \o disable_walls_control
        \o reset_control_all

reset_motion ==
    disable_motor_control \o disable_walls_control \o <<St(189, 0)>>
        \o reset_control_all

set_target_linear_speed(speed) == <<St(270, speed)>>

set_ideal_angular_speed(speed) == <<St(278, speed)>>

\* the control state after the statement st
Store(s, st) ==
    CASE st.line = 47 ->
             [s EXCEPT !.side_sensors_close_control_enabled = st.arg]
      [] st.line = 55 ->
             [s EXCEPT !.side_sensors_far_control_enabled = st.arg]
      [] st.line = 63 ->
             [s EXCEPT !.diagonal_sensors_control_enabled = st.arg]
      [] st.line = 71 ->
             [s EXCEPT !.front_sensors_control_enabled = st.arg]
      [] st.line = 111 -> [s EXCEPT !.collision_detected_signal = st.arg]
      [] st.line = 120 -> [s EXCEPT !.side_sensors_integral = st.arg]
      [] st.line = 121 -> [s EXCEPT !.front_sensors_integral = st.arg]
      [] st.line = 122 -> [s EXCEPT !.diagonal_sensors_integral = st.arg]
      [] st.line = 123 -> [s EXCEPT !.linear_error = st.arg]
      [] st.line = 124 -> [s EXCEPT !.angular_error = st.arg]
      [] st.line = 125 -> [s EXCEPT !.last_linear_error = st.arg]
      [] st.line = 126 -> [s EXCEPT !.last_angular_error = st.arg]
      [] st.line = 134 -> [s EXCEPT !.target_linear_speed = st.arg]
      [] st.line = 135 -> [s EXCEPT !.ideal_linear_speed = st.arg]
      [] st.line = 136 -> [s EXCEPT !.ideal_angular_speed = st.arg]
      [] st.line = 163 -> [s EXCEPT !.motor_control_enabled_signal = st.arg]
      [] st.line = 174 -> [s EXCEPT !.motor_control_enabled_signal = st.arg]
      [] st.line = 270 -> [s EXCEPT !.target_linear_speed = st.arg]
      [] st.line = 278 -> [s EXCEPT !.ideal_angular_speed = st.arg]
      [] OTHER -> s

\* the motor driver calls the statement st makes
DriverCalls(st) ==
    CASE st.line = 112 -> <<"reset_motor_driver_saturation">>
      [] st.line = 189 -> <<"drive_off">>
      [] OTHER -> <<>>

\* the limits of this environment, for the profile runs observed
TheAcceleration == CHOOSE a \in env.accs : TRUE

TheDeceleration == CHOOSE d \in env.decs : TRUE

\* the observed run after the statement st: a write of the target starts
\* one, a reset of the speeds ends it
RunAfter(r, st) ==
    IF ~env.observe THEN r
    ELSE IF st.line = 270
    THEN RunStart(cs.ideal_linear_speed, st.arg,
                  TheAcceleration, TheDeceleration)
    ELSE IF st.line \in {134, 135} THEN NoRun
    ELSE r

\* a statement of the planner ends the streak: the next one starts from the
\* control state the statement leaves; the first statement of a function
\* records the call, the newest first
WatchAfter(w, st) ==
    [ticks |-> IF env.counting THEN 0 ELSE w.ticks,
     from |-> IF env.counting THEN Store(cs, st) ELSE w.from,
     trail |-> IF env.history /\ pending = <<>>
               THEN <<[name |-> planner',
                       enabled |-> cs.motor_control_enabled_signal,
                       latched |-> cs.collision_detected_signal],
                      w.trail[1]>>
               ELSE w.trail,
     preempted |-> w.preempted]

\* the planner executes one statement
Exec(st) ==
    /\ cs' = Store(cs, st)
    /\ saturation' = IF st.line = 112 THEN 0 ELSE saturation
    /\ driver_on' = IF st.line = 189 THEN FALSE ELSE driver_on
    /\ calls' = DriverCalls(st)
    /\ op' = "planner"
    /\ run' = RunAfter(run, st)
    /\ watch' = WatchAfter(watch, st)
    /\ UNCHANGED env

\* the planner calls a function and executes its first statement
Call(name, body) ==
    /\ pending = <<>>
    /\ planner' = name
    /\ pending' = Tail(body)
    /\ Exec(Head(body))

\* the planner executes the next statement of the function in progress
PlannerStep ==
    /\ pending # <<>>
    /\ pending' = Tail(pending)
    /\ UNCHANGED planner
    /\ Exec(Head(pending))

\* the values the planner may pass to the enable function of a wall loop
Flags(wall) == IF wall \in env.walls THEN BOOLEAN ELSE {FALSE}

SetTarget ==
    \E speed \in env.targets :
        Call("set_target_linear_speed", set_target_linear_speed(speed))

SetAngular ==
    \E speed \in env.angulars :
        Call("set_ideal_angular_speed", set_ideal_angular_speed(speed))

SideClose ==
    \E value \in Flags("close") :
        Call("side_sensors_close_control", side_sensors_close_control(value))

SideFar ==
    \E value \in Flags("far") :
        Call("side_sensors_far_control", side_sensors_far_control(value))

Front ==
    \E value \in Flags("front") :
        Call("front_sensors_control", front_sensors_control(value))

Diagonal ==
    \E value \in Flags("diagonal") :
        Call("diagonal_sensors_control", diagonal_sensors_control(value))

DisableWalls == Call("disable_walls_control", disable_walls_control)

EnableMotorControl == Call("enable_motor_control", enable_motor_control)

DisableMotorControl == Call("disable_motor_control", disable_motor_control)

ResetCollisionDetection ==
    Call("reset_collision_detection", reset_collision_detection)

ResetControlErrors == Call("reset_control_errors", reset_control_errors)

ResetControlSpeed == Call("reset_control_speed", reset_control_speed)

ResetControlAll == Call("reset_control_all", reset_control_all)

ResetMotion == Call("reset_motion", reset_motion)

Next ==
    \/ Tick
    \/ PlannerStep
    \/ SetTarget
    \/ SetAngular
    \/ SideClose
    \/ SideFar
    \/ Front
    \/ Diagonal
    \/ DisableWalls
    \/ EnableMotorControl
    \/ DisableMotorControl
    \/ ResetCollisionDetection
    \/ ResetControlErrors
    \/ ResetControlSpeed
    \/ ResetControlAll
    \/ ResetMotion

Spec == Init /\ [][Next]_vars

\* the planner of a profile run: it sets targets and switches motor control
NextProfile ==
    \/ Tick
    \/ SetTarget
    \/ EnableMotorControl
    \/ DisableMotorControl

SpecProfile == InitProfile /\ [][NextProfile]_vars

\* the planner of a counted streak: it switches the side loops and motor
\* control and resets the errors
NextCounting ==
    \/ Tick
    \/ PlannerStep
    \/ SideClose
    \/ SideFar
    \/ EnableMotorControl
    \/ DisableMotorControl
    \/ ResetControlErrors

SpecCounting == InitCounting /\ [][NextCounting]_vars

\* the planner around a collision: it sets the target speed, switches motor
\* control and resets the collision detection and the errors
NextRecording ==
    \/ Tick
    \/ PlannerStep
    \/ SetTarget
    \/ EnableMotorControl
    \/ DisableMotorControl
    \/ ResetCollisionDetection
    \/ ResetControlErrors

SpecRecording == InitRecording /\ [][NextRecording]_vars

TypeOK ==
    /\ \A f \in {"target_linear_speed", "ideal_linear_speed",
                 "ideal_angular_speed", "linear_error", "angular_error",
                 "last_linear_error", "last_angular_error", "voltage_left",
                 "voltage_right", "side_sensors_integral",
                 "front_sensors_integral", "diagonal_sensors_integral"} :
           IsFloat(cs[f])
    /\ saturation \in 0..MaxSaturation

\* ------------------------------------------------------------------------
\* Observations the properties are stated with
\* ------------------------------------------------------------------------
\* the last step was a tick that found motor control disabled
AfterGatedTick == op = "motor_control" /\ calls = <<>>

\* the last step was a tick that ran the control and drove the motors
AfterActiveTick ==
    op = "motor_control" /\ calls = <<"power_left", "power_right">>

\* the planner function f has returned and nothing was called since
Returned(f) == planner = f /\ pending = <<>>

\* the lines of the statements still to execute
PendingLines == {pending[i].line : i \in 1..Len(pending)}

WallFlags ==
    {"side_sensors_close_control_enabled", "side_sensors_far_control_enabled",
     "front_sensors_control_enabled", "diagonal_sensors_control_enabled"}

\* ------------------------------------------------------------------------
\* C1.  A tick that finds motor control disabled changes no field of the
\* control state, leaves the saturation counter and the PWM output alone
\* and calls neither power_left, power_right nor drive_off.
\* ------------------------------------------------------------------------
C1_GatedTickIsNoOp ==
    [][(op' = "motor_control" /\ ~cs.motor_control_enabled_signal)
           => /\ cs' = cs
              /\ saturation' = saturation
              /\ driver_on' = driver_on
              /\ calls' = <<>>]_vars

\* a disabled tick ran over a state with outputs, errors and a saturation
\* count left by earlier ticks
C1_Witness ==
    /\ AfterGatedTick
    /\ ~cs.motor_control_enabled_signal
    /\ cs.pwm_left # 0
    /\ cs.voltage_right # 0
    /\ cs.linear_error # 0
    /\ saturation > 0

\* ------------------------------------------------------------------------
\* C2.  As claimed: after an enabled tick during which
\* motor_driver_saturation() returned T_SAT or more, the collision is
\* latched and motor control is disabled.
\* ------------------------------------------------------------------------
C2_AtOrAboveThreshold ==
    (AfterActiveTick /\ IntToFloat(saturation) >= T_SAT)
        => (cs.collision_detected_signal /\ ~cs.motor_control_enabled_signal)

\* C2 as amended: after an enabled tick during which
\* motor_driver_saturation() returned more than T_SAT, the collision is
\* latched and motor control is disabled; a value of T_SAT or less leaves
\* motor control enabled.
C2_AboveThreshold ==
    /\ (AfterActiveTick /\ IntToFloat(saturation) > T_SAT)
           => (cs.collision_detected_signal
               /\ ~cs.motor_control_enabled_signal)
    /\ (AfterActiveTick /\ IntToFloat(saturation) <= T_SAT)
           => cs.motor_control_enabled_signal

C2_Witness ==
    /\ AfterActiveTick
    /\ IntToFloat(saturation) > T_SAT
    /\ cs.collision_detected_signal
    /\ ~cs.motor_control_enabled_signal

\* ------------------------------------------------------------------------
\* C3.  As claimed: whenever the collision is latched, motor control is
\* disabled.
\* ------------------------------------------------------------------------
C3_LatchedMeansDisabled ==
    cs.collision_detected_signal => ~cs.motor_control_enabled_signal

\* ------------------------------------------------------------------------
\* C4.  A latched collision is cleared by nothing but line 111, the first
\* statement of reset_collision_detection, run directly or through
\* reset_control_all or reset_motion; every tick and every other planner
\* statement leaves it latched.
\* ------------------------------------------------------------------------
C4_LatchClearedOnlyByReset ==
    [][(cs.collision_detected_signal /\ ~cs'.collision_detected_signal)
           => /\ op' = "planner"
              /\ planner' \in {"reset_collision_detection",
                               "reset_control_all", "reset_motion"}
              /\ pending' = <<St(112, 0)>>]_vars

\* the latch has outlived a reset of the errors, a reset of the speeds,
\* a re-enable and a tick
C4_Witness ==
    /\ cs.collision_detected_signal
    /\ \/ Returned("reset_control_errors")
       \/ Returned("reset_control_speed")
    /\ op = "motor_control"

\* ------------------------------------------------------------------------
\* C5.  As claimed: once reset_motion has returned, motor control is
\* disabled, the four wall loops are disabled and the driver is off.
\* ------------------------------------------------------------------------
C5_ResetMotionDisablesAll ==
    Returned("reset_motion")
        => /\ ~cs.motor_control_enabled_signal
           /\ \A f \in WallFlags : ~cs[f]
           /\ ~driver_on

\* ------------------------------------------------------------------------
\* C6.  As claimed: once reset_motion has returned, every numeric field of
\* the control state is zero, the latch is clear and the saturation counter
\* is zero.
\* ------------------------------------------------------------------------
ResetFields ==
    {"target_linear_speed", "ideal_linear_speed", "ideal_angular_speed",
     "linear_error", "angular_error", "last_linear_error",
     "last_angular_error", "side_sensors_integral",
     "front_sensors_integral", "diagonal_sensors_integral"}

OutputFields == {"voltage_left", "voltage_right", "pwm_left", "pwm_right"}

C6_ResetMotionZeroesAll ==
    Returned("reset_motion")
        => /\ \A f \in ResetFields \cup OutputFields : cs[f] = 0
           /\ ~cs.collision_detected_signal
           /\ saturation = 0

\* C6 as amended: once reset_motion has returned, the setpoints, the ideal
\* speed, the errors, the previous errors and the three integrals are zero,
\* the latch is clear and the saturation counter is zero; the voltages and
\* the PWM duties keep the values of the last enabled tick.
C6_ResetMotionZeroesControl ==
    Returned("reset_motion")
        => /\ \A f \in ResetFields : cs[f] = 0
           /\ ~cs.collision_detected_signal
           /\ saturation = 0

\* reset_motion has returned after ticks that left outputs behind
C6_Witness ==
    /\ Returned("reset_motion")
    /\ cs.voltage_left # 0
    /\ cs.pwm_right # 0

\* ------------------------------------------------------------------------
\* C7.  In reset_motion the driver is turned off with motor control
\* already disabled and every reset of a control field still to come; and
\* from then on the motors are powered again only by a tick that finds
\* motor control enabled, which only enable_motor_control brings about.
\* ------------------------------------------------------------------------
C7_OffBeforeReset ==
    /\ [](calls = <<"drive_off">>
             => /\ planner = "reset_motion"
                /\ ~cs.motor_control_enabled_signal
                /\ pending = reset_control_all)
    /\ [][(~cs.motor_control_enabled_signal
           /\ cs'.motor_control_enabled_signal)
              => planner' = "enable_motor_control"]_vars
    /\ [][(~driver_on /\ driver_on')
              => cs.motor_control_enabled_signal]_vars

\* a tick ran right after the drive_off of reset_motion and left the
\* driver off
C7_Witness ==
    /\ planner = "reset_motion"
    /\ pending = reset_control_all
    /\ AfterGatedTick
    /\ ~driver_on
    /\ cs.linear_error # 0

\* ------------------------------------------------------------------------
\* C8: the step of the speed profiler
\* ------------------------------------------------------------------------
MinI(a, b) == IF a < b THEN a ELSE b

MaxI(a, b) == IF a > b THEN a ELSE b

\* the spacing of the floats around x
Spacing(x) ==
    Ulp[CHOOSE e \in 0..MaxExp :
            /\ e = MaxExp \/ AbsI(x) < MantLimit * Ulp[e]
            /\ \A f \in 0..(e - 1) : AbsI(x) >= MantLimit * Ulp[f]]

\* the float steps of this environment
StepUp == FDiv(TheAcceleration, IntToFloat(SYSTICK_FREQUENCY_HZ))

StepDown == FDiv(TheDeceleration, IntToFloat(SYSTICK_FREQUENCY_HZ))

\* the step from ideal speed i to n under target t, in real arithmetic:
\* n = min(i + A/F, t), max(i - D/F, t) or i, and |n - i| <= max(A, D)/F
ExactSlewStep(i, t, n) ==
    /\ i < t => n * SYSTICK_FREQUENCY_HZ
                  = MinI(i * SYSTICK_FREQUENCY_HZ + TheAcceleration,
                         t * SYSTICK_FREQUENCY_HZ)
    /\ i > t => n * SYSTICK_FREQUENCY_HZ
                  = MaxI(i * SYSTICK_FREQUENCY_HZ - TheDeceleration,
                         t * SYSTICK_FREQUENCY_HZ)
    /\ i = t => n = i
    /\ AbsI(n - i) * SYSTICK_FREQUENCY_HZ
           <= MaxI(TheAcceleration, TheDeceleration)

\* the same step in float arithmetic: the quotient and the sum are rounded
FloatSlewStep(i, t, n) ==
    /\ i < t => /\ n = MinI(FAdd(i, StepUp), t)
                /\ i <= n /\ n <= t
    /\ i > t => /\ n = MaxI(FSub(i, StepDown), t)
                /\ t <= n /\ n <= i
    /\ i = t => n = i
    /\ 2 * AbsI(n - i) <= 2 * MaxI(StepUp, StepDown) + Spacing(n)
    /\ /\ i < t
       /\ TheAcceleration % SYSTICK_FREQUENCY_HZ = 0
       /\ IsFloat(i + TheAcceleration \div SYSTICK_FREQUENCY_HZ)
       => AbsI(n - i) * SYSTICK_FREQUENCY_HZ <= TheAcceleration
    /\ /\ i > t
       /\ TheDeceleration % SYSTICK_FREQUENCY_HZ = 0
       /\ IsFloat(i - TheDeceleration \div SYSTICK_FREQUENCY_HZ)
       => AbsI(n - i) * SYSTICK_FREQUENCY_HZ <= TheDeceleration

\* C8 as stated: on every active tick the new ideal speed is
\* min(I + A_accel/F_TICK, T), max(I - A_decel/F_TICK, T) or I, and the
\* step is at most max(A_accel, A_decel)/F_TICK
C8_ExactSlewStep ==
    [][op' = "motor_control" /\ cs.motor_control_enabled_signal
       => ExactSlewStep(cs.ideal_linear_speed, cs.target_linear_speed,
                        cs'.ideal_linear_speed)]_vars

\* C8: on every active tick the new ideal speed is the float
\* min(I + A_accel/F_TICK, T), max(I - A_decel/F_TICK, T) or I, quotient and
\* sum each rounded to a float; it never moves away from T nor crosses it;
\* the step is at most the larger float quotient plus half the float
\* spacing at the new speed, and at most A/F_TICK where the quotient and
\* the sum are floats
C8_FloatSlewStep ==
    [][op' = "motor_control" /\ cs.motor_control_enabled_signal
       => FloatSlewStep(cs.ideal_linear_speed, cs.target_linear_speed,
                        cs'.ideal_linear_speed)]_vars

\* an active tick rounded its sum: the ideal speed moved toward the target
\* by more than the float step, short of the target
C8_Witness ==
    /\ AfterActiveTick
    /\ run.active /\ run.ticks > 0
    /\ cs.ideal_linear_speed < cs.target_linear_speed
    /\ cs.ideal_linear_speed = FAdd(run.from, StepUp)
    /\ cs.ideal_linear_speed - run.from > StepUp

\* ------------------------------------------------------------------------
\* C9: arrival of the ideal speed at the target
\* ------------------------------------------------------------------------
\* the limit of a run from start to target
RunLimit(start, target) ==
    IF start < target THEN TheAcceleration ELSE TheDeceleration

\* no operation of the run from start to target rounds: the step is a
\* float and so is every speed on the way
ExactRun(start, target) ==
    LET limit == RunLimit(start, target)
        step == limit \div SYSTICK_FREQUENCY_HZ
        dir == IF start < target THEN 1 ELSE -1
    IN  /\ limit % SYSTICK_FREQUENCY_HZ = 0
        /\ IsFloat(step)
        /\ \A k \in 1..RunBound(start, target, TheAcceleration,
                                TheDeceleration) :
               \/ (start + dir * k * step - target) * dir >= 0
               \/ IsFloat(start + dir * k * step)

\* C9 as stated: ceil(|T - I0| / step) active ticks after the target was
\* set the ideal speed equals the target, and on every later tick
C9_ArrivesAfterBound ==
    run.active /\ run.ticks >= run.bound
        => cs.ideal_linear_speed = cs.target_linear_speed

\* C9: where no operation of the run rounds, the ideal speed equals the
\* target ceil(|T - I0| / step) active ticks after the target was set; and
\* in every run, once the ideal speed has equalled the target it equals it
\* on every later tick
C9_ArrivesWhenExact ==
    /\ /\ run.active
       /\ ExactRun(run.start, cs.target_linear_speed)
       /\ run.ticks >= run.bound
       => cs.ideal_linear_speed = cs.target_linear_speed
    /\ run.active /\ run.arrived
       => cs.ideal_linear_speed = cs.target_linear_speed

\* a run of several ticks without rounding has just arrived, on its last
\* tick
C9_Witness ==
    /\ AfterActiveTick
    /\ run.active
    /\ ExactRun(run.start, cs.target_linear_speed)
    /\ run.bound >= 3
    /\ run.ticks = run.bound
    /\ cs.ideal_linear_speed = cs.target_linear_speed

\* ------------------------------------------------------------------------
\* C10: a disabled wall loop and its integral
\* ------------------------------------------------------------------------
\* the integral each wall loop adds to
IntegralOf ==
    [side_sensors_close_control_enabled |-> "side_sensors_integral",
     side_sensors_far_control_enabled |-> "side_sensors_integral",
     front_sensors_control_enabled |-> "front_sensors_integral",
     diagonal_sensors_control_enabled |-> "diagonal_sensors_integral"]

\* C10 as stated: a tick on which the flag of a wall loop is false leaves
\* the integral of that loop unchanged, whatever the other flags
C10_DisabledLoopKeepsIntegral ==
    [][op' = "motor_control"
       => \A x \in WallFlags :
              ~cs[x] => cs'[IntegralOf[x]] = cs[IntegralOf[x]]]_vars

\* C10: a tick on which the front (diagonal) flag is false leaves the front
\* (diagonal) integral unchanged, whatever the other flags; a tick on which
\* both side flags are false leaves the side integral unchanged
C10_DisabledLoopsKeepIntegral ==
    [][op' = "motor_control"
       => /\ ~cs.front_sensors_control_enabled
             => cs'.front_sensors_integral = cs.front_sensors_integral
          /\ ~cs.diagonal_sensors_control_enabled
             => cs'.diagonal_sensors_integral = cs.diagonal_sensors_integral
          /\ /\ ~cs.side_sensors_close_control_enabled
             /\ ~cs.side_sensors_far_control_enabled
             => cs'.side_sensors_integral = cs.side_sensors_integral]_vars

\* an active tick with the front loop disabled, its integral kept from
\* earlier ticks, while the diagonal loop is enabled and accumulating
C10_Witness ==
    /\ AfterActiveTick
    /\ ~cs.front_sensors_control_enabled
    /\ cs.front_sensors_integral # 0
    /\ cs.diagonal_sensors_control_enabled
    /\ cs.diagonal_sensors_integral # 0

\* ------------------------------------------------------------------------
\* C11: growth of the side integral under the side-close loop alone
\* ------------------------------------------------------------------------
\* e added n times to 0, each sum rounded to a float
RECURSIVE FloatSum(_, _)
FloatSum(e, n) == IF n = 0 THEN 0 ELSE FAdd(FloatSum(e, n - 1), e)

\* the constant the side-close sensors report in this environment
TheCloseError == CHOOSE e \in env.closes : TRUE

\* a streak of enabled ticks from a zero side integral with the side-close
\* loop alone enabled
CloseStreak ==
    /\ watch.ticks \in 1..MaxStreak
    /\ watch.from.side_sensors_integral = 0
    /\ cs.side_sensors_close_control_enabled
    /\ ~cs.side_sensors_far_control_enabled
    /\ ~cs.front_sensors_control_enabled
    /\ ~cs.diagonal_sensors_control_enabled

\* C11 as stated: after N enabled ticks of the side-close loop alone from a
\* zero integral, side_sensors_integral = e * N * (N + 1) / 2
C11_TriangularGrowth ==
    CloseStreak
        => 2 * cs.side_sensors_integral
               = TheCloseError * watch.ticks * (watch.ticks + 1)

\* C11: after N enabled ticks of the side-close loop alone from a zero
\* integral, side_sensors_integral is e added N times in float arithmetic,
\* which is N * e where every partial sum is a float
C11_LinearGrowth ==
    CloseStreak
        => /\ cs.side_sensors_integral = FloatSum(TheCloseError, watch.ticks)
           /\ (\A k \in 1..watch.ticks : IsFloat(k * TheCloseError))
              => cs.side_sensors_integral = watch.ticks * TheCloseError

\* three enabled ticks of the side-close loop alone have summed 3 * e
C11_Witness ==
    /\ AfterActiveTick
    /\ CloseStreak
    /\ watch.ticks = 3
    /\ TheCloseError # 0
    /\ cs.side_sensors_integral = 3 * TheCloseError

\* ------------------------------------------------------------------------
\* C12: a collision stops the drive until the planner re-arms
\* ------------------------------------------------------------------------
\* the planner has just returned from enable_motor_control(), the call before
\* having been reset_collision_detection()
Rearmed ==
    /\ op = "planner"
    /\ Returned("enable_motor_control")
    /\ watch.trail[1].name = "enable_motor_control"
    /\ watch.trail[2].name = "reset_collision_detection"

\* C12: the tick that latches a collision leaves motor control disabled; a
\* tick with motor control disabled calls neither power_left nor
\* power_right; only enable_motor_control() enables motor control; and the
\* tick that follows reset_collision_detection() then enable_motor_control()
\* calls power_left and power_right and latches a collision only if the
\* saturation counter exceeds T_SAT
C12_StoppedUntilRearmed ==
    /\ [][~cs.collision_detected_signal /\ cs'.collision_detected_signal
          => op' = "motor_control" /\ ~cs'.motor_control_enabled_signal]_vars
    /\ [][op' = "motor_control" /\ ~cs.motor_control_enabled_signal
          => calls' = <<>>]_vars
    /\ [][~cs.motor_control_enabled_signal /\ cs'.motor_control_enabled_signal
          => planner' = "enable_motor_control" /\ op' = "planner"]_vars
    /\ [][Rearmed /\ op' = "motor_control"
          => /\ calls' = <<"power_left", "power_right">>
             /\ ~cs.collision_detected_signal /\ cs'.collision_detected_signal
                => IntToFloat(saturation') > T_SAT]_vars

\* the first tick after the planner answered a latched collision by
\* reset_collision_detection() then enable_motor_control(): it drove the
\* motors and latched nothing
C12_Witness ==
    /\ AfterActiveTick
    /\ watch.trail[1].name = "enable_motor_control"
    /\ watch.trail[2].name = "reset_collision_detection"
    /\ watch.trail[2].latched
    /\ ~watch.trail[2].enabled
    /\ ~cs.collision_detected_signal
    /\ cs.motor_control_enabled_signal
    /\ IntToFloat(saturation) <= T_SAT

\* ------------------------------------------------------------------------
\* C13: reset_control_errors() with motor control disabled
\* ------------------------------------------------------------------------
ErrorFields ==
    {"linear_error", "angular_error", "last_linear_error",
     "last_angular_error", "side_sensors_integral",
     "front_sensors_integral", "diagonal_sensors_integral"}

\* reset_control_errors() has returned, motor control having been disabled
\* when it was called; no other function was called since
SerialisedReset ==
    /\ Returned("reset_control_errors")
    /\ watch.trail[1].name = "reset_control_errors"
    /\ ~watch.trail[1].enabled

\* C13: once reset_control_errors() has returned, called with motor control
\* disabled, the four errors and the three integrals are zero, whatever
\* ticks ran between its statements or after it; and a tick with motor
\* control disabled leaves them as they are
C13_SerialisedResetZeroes ==
    /\ [](SerialisedReset => \A f \in ErrorFields : cs[f] = 0)
    /\ [][op' = "motor_control" /\ ~cs.motor_control_enabled_signal
          => \A f \in ErrorFields : cs'[f] = cs[f]]_vars

\* a tick ran after such a reset of a control that had driven the motors:
\* the voltages of the last enabled tick remain, the errors are zero
C13_Witness ==
    /\ SerialisedReset
    /\ AfterGatedTick
    /\ cs.voltage_left # 0
    /\ \A f \in ErrorFields : cs[f] = 0

\* ------------------------------------------------------------------------
\* C14: the range of the PWM duties
\* ------------------------------------------------------------------------
\* the supply voltage the motor driver reports in this environment
TheSupply == CHOOSE v \in env.vins : TRUE

InRange(pwm) == AbsI(pwm) <= DRIVER_PWM_PERIOD

Duty(voltage, vin) ==
    FMul(FDiv(voltage, vin), IntToFloat(DRIVER_PWM_PERIOD))

\* the integer p is the float x with its fractional part discarded
Truncated(x, p) ==
    /\ AbsI(p) * One <= AbsI(x)
    /\ AbsI(x) < (AbsI(p) + 1) * One
    /\ p # 0 => Sign(p) = Sign(x)

\* half the supply voltage of this environment
HalfSupply == TheSupply \div 2

\* the duty of the same voltage at half the supply is twice the duty p
HalvingDoubles(voltage, p) ==
    PwmFinite(voltage, HalfSupply)
        => voltage_to_motor_pwm(voltage, HalfSupply) = 2 * p

\* the duty of the same voltage at half the supply is twice the duty p, give
\* or take one count lost in the truncation
HalvingDoublesWithinOne(voltage, p) ==
    PwmFinite(voltage, HalfSupply)
        => AbsI(voltage_to_motor_pwm(voltage, HalfSupply) - 2 * p) <= 1

\* C15 as stated: after every enabled tick each duty is its voltage divided
\* by the supply and multiplied by DRIVER_PWM_PERIOD, truncated toward zero,
\* and half the supply would give twice the duty
C15_TruncatedAndDoubling ==
    AfterActiveTick
        => /\ Truncated(Duty(cs.voltage_left, TheSupply), cs.pwm_left)
           /\ Truncated(Duty(cs.voltage_right, TheSupply), cs.pwm_right)
           /\ HalvingDoubles(cs.voltage_left, cs.pwm_left)
           /\ HalvingDoubles(cs.voltage_right, cs.pwm_right)

\* C15: after every enabled tick each duty is its voltage divided by the
\* supply and multiplied by DRIVER_PWM_PERIOD in float arithmetic, truncated
\* toward zero whatever its sign, and half the supply would give twice the
\* duty give or take one count
C15_TruncatedAndDoublingWithinOne ==
    AfterActiveTick
        => /\ Truncated(Duty(cs.voltage_left, TheSupply), cs.pwm_left)
           /\ Truncated(Duty(cs.voltage_right, TheSupply), cs.pwm_right)
           /\ HalvingDoublesWithinOne(cs.voltage_left, cs.pwm_left)
           /\ HalvingDoublesWithinOne(cs.voltage_right, cs.pwm_right)

\* an enabled tick truncated a negative fractional duty toward zero, and
\* half the supply would have given one count more than twice that duty
C15_Witness ==
    /\ AfterActiveTick
    /\ cs.voltage_left < 0
    /\ Duty(cs.voltage_left, TheSupply) % One # 0
    /\ cs.pwm_left * One > Duty(cs.voltage_left, TheSupply)
    /\ PwmFinite(cs.voltage_left, HalfSupply)
    /\ voltage_to_motor_pwm(cs.voltage_left, HalfSupply) = 2 * cs.pwm_left - 1

\* ------------------------------------------------------------------------
\* C16: one enabled tick with both side loops enabled
\* ------------------------------------------------------------------------
\* the constant the side-far sensors report in this environment
TheFarError == CHOOSE f \in env.fars : TRUE

\* one enabled tick has run since the last planner statement, both side
\* loops enabled; watch.from is the control state before it
DualSideTick ==
    /\ AfterActiveTick
    /\ watch.ticks = 1
    /\ cs.side_sensors_close_control_enabled
    /\ cs.side_sensors_far_control_enabled

\* the side gain alone drives the motors: the voltages are the proportional
\* side feedback and its opposite
SideFeedbackIs(x) ==
    /\ cs.voltage_left = FMul(One, x)
    /\ cs.voltage_right = -FMul(One, x)

\* C16 as stated: a tick with both side loops enabled adds c + 2 * f to
\* side_sensors_integral, the proportional side feedback being c + f
C16_FarCountedTwice ==
    DualSideTick
        => /\ cs.side_sensors_integral
                = watch.from.side_sensors_integral
                      + TheCloseError + 2 * TheFarError
           /\ SideFeedbackIs(TheCloseError + TheFarError)

\* C16: a tick with both side loops enabled adds c, then c + f, to
\* side_sensors_integral in float arithmetic, which is 2 * c + f more where
\* both sums are floats: the close error is the one counted twice; the
\* proportional side feedback is c + f
C16_CloseCountedTwice ==
    DualSideTick
        => /\ cs.side_sensors_integral
                = FAdd(FAdd(watch.from.side_sensors_integral, TheCloseError),
                       FAdd(TheCloseError, TheFarError))
           /\ /\ IsFloat(watch.from.side_sensors_integral + TheCloseError)
              /\ IsFloat(watch.from.side_sensors_integral
                             + 2 * TheCloseError + TheFarError)
              => cs.side_sensors_integral
                     = watch.from.side_sensors_integral
                           + 2 * TheCloseError + TheFarError
           /\ SideFeedbackIs(FAdd(TheCloseError, TheFarError))

\* such a tick has added 2 * c + f to a side integral that was not zero
C16_Witness ==
    /\ DualSideTick
    /\ watch.from.side_sensors_integral # 0
    /\ TheCloseError # TheFarError
    /\ cs.side_sensors_integral
           = watch.from.side_sensors_integral
                 + 2 * TheCloseError + TheFarError
    /\ cs.voltage_left = TheCloseError + TheFarError

\* ------------------------------------------------------------------------
\* C17: reset_collision_detection() against the tick
\* ------------------------------------------------------------------------
\* C17 as stated: when reset_collision_detection() returns, whatever ticks
\* ran between its statements, the collision latch is clear and the
\* saturation counter is zero
C17_ResetClearsLatchAndCounter ==
    op = "planner" /\ Returned("reset_collision_detection")
        => ~cs.collision_detected_signal /\ saturation = 0

\* ------------------------------------------------------------------------
\* C18: the previous errors and the derivative term
\* ------------------------------------------------------------------------
\* the previous errors are the errors
LastIsCurrent(s) ==
    /\ s.last_linear_error = s.linear_error
    /\ s.last_angular_error = s.angular_error

\* the speed error of a tick under constant encoder readings: the ideal
\* speed after the profiler minus the measured speed
TheSpeedError ==
    LET e == CHOOSE e \in env.encs : TRUE
    IN  FSub(cs.ideal_linear_speed, get_measured_linear_speed(e[1], e[2]))

\* the derivative gain of the environment
TheDerivativeGain == (CHOOSE c \in env.controls : TRUE).kd_linear

\* the last step was the first enabled tick after a statement of the
\* planner, where only the derivative term drives the motors: voltage_left
\* is that term
DerivativeTick ==
    /\ env = CountingLinear
    /\ AfterActiveTick
    /\ watch.ticks = 1

\* C18 as stated: whenever no planner function is part-way through its
\* statements, the previous errors equal the errors, also after a
\* reset_control_errors() that enabled ticks have pre-empted
C18_LastIsCurrentAlways == pending = <<>> => LastIsCurrent(cs)

\* C18, amended: whenever no planner function is part-way through its
\* statements, the previous errors equal the errors unless the latest
\* enabled tick ran between the stores to linear_error and to
\* last_angular_error of reset_control_errors(); the derivative term of a
\* tick is kd times the difference of the new error and the previous one,
\* which is kd times the tick's speed error when the previous error was
\* the error and their sum is a float
C18_LastIsCurrentUnlessPreempted ==
    /\ pending = <<>> /\ ~watch.preempted => LastIsCurrent(cs)
    /\ AfterActiveTick => LastIsCurrent(cs)
    /\ DerivativeTick
        => /\ cs.voltage_left
                = FMul(TheDerivativeGain,
                       FSub(cs.linear_error, watch.from.last_linear_error))
           /\ /\ LastIsCurrent(watch.from)
              /\ IsFloat(watch.from.linear_error + TheSpeedError)
              => cs.voltage_left = FMul(TheDerivativeGain, TheSpeedError)

\* the derivative term is kd times the speed error whenever the previous
\* error was the error
C18_DerivativeOfSpeedError ==
    DerivativeTick /\ LastIsCurrent(watch.from)
        => cs.voltage_left = FMul(TheDerivativeGain, TheSpeedError)

\* the first enabled tick after a completed reset_control_errors(): the
\* errors are not zero, the previous errors equal them and the derivative
\* term is kd times the speed error
C18_Witness ==
    /\ DerivativeTick
    /\ Returned("reset_control_errors")
    /\ ~watch.preempted
    /\ cs.linear_error # 0
    /\ LastIsCurrent(cs)
    /\ LastIsCurrent(watch.from)
    /\ cs.voltage_left = FMul(TheDerivativeGain, TheSpeedError)
    /\ cs.voltage_left # 0

\* ------------------------------------------------------------------------
\* C19: the gyro sign and the growth of the angular error
\* ------------------------------------------------------------------------
\* the gyro rate of the environment
TheGyroRate == CHOOSE g \in env.gyros : TRUE

\* a streak of enabled ticks with the gyro at +1.0 rad/s and the ideal
\* angular speed zero, started with the angular error zero
GyroStreak ==
    /\ env = CountingGyro
    /\ watch.ticks \in 1..MaxStreak
    /\ watch.from.angular_error = 0
    /\ cs.ideal_angular_speed = 0

\* C19 as stated: the measured angular speed is -1.0 and after the k-th
\* tick of the streak the angular error is k * 1.0 / F_TICK
C19_ErrorGrowsByTickPeriod ==
    GyroStreak
        => /\ get_measured_angular_speed(TheGyroRate) = -One
           /\ cs.angular_error > 0
           /\ cs.angular_error * SYSTICK_FREQUENCY_HZ = watch.ticks * One

\* C19, amended: the measured angular speed is -1.0 and after the k-th tick
\* of the streak the angular error is positive and the float sum of k terms
\* of 1.0, which is k * 1.0 while that is a float: the tick frequency does
\* not enter
C19_ErrorGrowsByOne ==
    GyroStreak
        => /\ get_measured_angular_speed(TheGyroRate) = -One
           /\ cs.angular_error > 0
           /\ cs.angular_error = FloatSum(One, watch.ticks)
           /\ IsFloat(watch.ticks * One)
              => cs.angular_error = watch.ticks * One

\* after the third tick of such a streak the angular error is 3.0
C19_Witness ==
    /\ GyroStreak
    /\ AfterActiveTick
    /\ watch.ticks = 3
    /\ cs.angular_error = 3 * One

\* ------------------------------------------------------------------------
\* C20: motor control enabled again with the collision still latched
\* ------------------------------------------------------------------------
\* motor control is enabled while the collision is latched and the
\* saturation counter is above the threshold: enable_motor_control() was
\* called after the latch and reset_collision_detection() was not
Reenabled ==
    /\ cs.collision_detected_signal
    /\ cs.motor_control_enabled_signal
    /\ IntToFloat(saturation) > T_SAT

\* the ideal speeds the profiler can leave, by the limits of the environment
ProfilerSteps ==
    {update_ideal_linear_speed(cs.ideal_linear_speed, cs.target_linear_speed,
                               a, d) : a \in env.accs, d \in env.decs}

\* the measured linear speeds of the environment
MeasuredSpeeds == {get_measured_linear_speed(e[1], e[2]) : e \in env.encs}

\* C20: a latched collision leaves motor control enabled only through
\* enable_motor_control(); the tick that then runs with the counter above
\* T_SAT updates the ideal speed and the errors, calls power_left and
\* power_right once each and ends with motor control disabled; the tick
\* after it drives nothing; and the latch stays set until
\* reset_collision_detection() clears it
C20_OneDrivenTickPerEnable ==
    /\ [][cs.collision_detected_signal /\ ~cs.motor_control_enabled_signal
             /\ cs'.motor_control_enabled_signal
          => /\ op' = "planner" /\ planner' = "enable_motor_control"
             /\ cs'.collision_detected_signal]_vars
    /\ [][Reenabled /\ op' = "motor_control"
          => /\ calls' = <<"power_left", "power_right">>
             /\ cs'.ideal_linear_speed \in ProfilerSteps
             /\ \E v \in MeasuredSpeeds :
                    cs'.linear_error
                        = FAdd(cs.linear_error,
                               FSub(cs'.ideal_linear_speed, v))
             /\ cs'.last_linear_error = cs'.linear_error
             /\ cs'.last_angular_error = cs'.angular_error
             /\ ~cs'.motor_control_enabled_signal
             /\ cs'.collision_detected_signal]_vars
    /\ [][cs.collision_detected_signal /\ ~cs.motor_control_enabled_signal
             /\ op' = "motor_control"
          => calls' = <<>> /\ cs' = cs]_vars
    /\ [][cs.collision_detected_signal /\ ~cs'.collision_detected_signal
          => op' = "planner" /\ planner' = "reset_collision_detection"]_vars

\* the tick after an enable_motor_control() called with the collision latched
\* and not reset: it moved the ideal speed, drove the motors and left motor
\* control disabled, the collision still latched
C20_Witness ==
    /\ AfterActiveTick
    /\ Returned("enable_motor_control")
    /\ watch.trail[1].name = "enable_motor_control"
    /\ watch.trail[1].latched
    /\ ~watch.trail[1].enabled
    /\ watch.trail[2].name # "reset_collision_detection"
    /\ cs.collision_detected_signal
    /\ ~cs.motor_control_enabled_signal
    /\ IntToFloat(saturation) > T_SAT
    /\ cs.ideal_linear_speed # 0
    /\ cs.linear_error # 0

====
